---- MODULE Spec2Model ----
(***************************************************************************)
(* Model of Quickstart.ipynb: the notebook that fetches the container      *)
(* dataset, labels it with GroundedSAM, trains and exports a YOLOv8 model, *)
(* and runs the model on one image and on the frames of a video.           *)
(*                                                                         *)
(* Conventions.                                                            *)
(*  - A path is a record [path |-> <<components>>, ext |-> ".jpg"]; a      *)
(*    directory has ext = "".  "./x/y.jpg" is                              *)
(*    [path |-> <<".", "x", "y">>, ext |-> ".jpg"].                        *)
(*  - A Python str is the sequence of its characters, so that indexing a   *)
(*    str (classes[class_id]) is computed and not assumed.                 *)
(*  - A confidence is an integer number of thousandths (301 is 0.301); a   *)
(*    formatted confidence (":0.2f") is a number of hundredths.            *)
(***************************************************************************)
EXTENDS Integers, Sequences, FiniteSets, TLC

\* ------------------------------------------------------------------ bounds
\* the most frames a source video has
MaxFrames == 2
\* the most detections the model yields over the frames of one video
MaxDets == 3

\* confidences a detection may carry, in thousandths: at, just above and well
\* above the 0.3 threshold of process_frame
Scores == {300, 301, 906}

\* ------------------------------------------------------- paths and strings
Dir(p) == [path |-> p, ext |-> ""]
File(p, e) == [path |-> p, ext |-> e]

\* "./x" and "x" name the same entry
Norm(p) == [path |-> SelectSeq(p.path, LAMBDA c : c # "."), ext |-> p.ext]

\* the entries directly inside directory d on disk dk
FilesIn(dk, d) ==
    {e \in dk : /\ e.ext # ""
                /\ Len(e.path) = Len(d.path) + 1
                /\ SubSeq(e.path, 1, Len(d.path)) = d.path}

\* line 43: wget saves the archive as containers.zip
ZIP_FILE == File(<<"containers">>, ".zip")
\* line 44: unzip -d containers
UNZIP_DIR == Dir(<<"containers">>)
\* the images packed in the archive
ZipImages == {File(<<"containers", "0c59">>, ".jpg")}

\* line 93: CaptionOntology({"shipping container": "container"})
Ontology ==
    << [prompt |-> <<"s","h","i","p","p","i","n","g"," ","c","o","n","t","a","i","n","e","r">>,
        class  |-> <<"c","o","n","t","a","i","n","e","r">>] >>

\* the class names of an ontology, in order (class id k is entry k + 1)
OntologyClasses(o) == [k \in 1..Len(o) |-> o[k].class]

\* line 104: base_model.label("./context_images", extension=".jpeg")
LABEL_INPUT == Dir(<<".", "context_images">>)
LABEL_EXTENSION == ".jpeg"

\* the labelled-dataset directory and its manifest
LabelOutputDir == Dir(<<"containers_labeled">>)
LabelManifest == File(<<"containers_labeled", "data">>, ".yaml")

\* line 129: target_model.train("./containers_labeled/data.yaml", epochs=200)
TRAIN_MANIFEST == File(<<".", "containers_labeled", "data">>, ".yaml")

\* line 132: the artifact export(format="onnx") writes and returns
EXPORTED == File(<<"weights", "best">>, ".onnx")

\* line 164: example_image
EXAMPLE_IMAGE == File(<<".", "containers_labeled", "train", "images", "0c59">>, ".jpg")

\* line 198: classes = "container"  (a str, not a list of class names)
classes == <<"c","o","n","t","a","i","n","e","r">>

\* lines 200-201
VIDEO == File(<<"video">>, ".mp4")
OUTPUT == File(<<"output">>, ".mp4")

\* line 207: the threshold 0.3, in thousandths
CONF_THRESHOLD == 300

\* ------------------------------------------------- process_frame, the parts
\* line 205: target_model(frame).json() - the detections the model yields on
\* the frame
Predict(frame) == frame.dets

\* line 206: sv.Detections.from_yolov8 keeps the predictions in their order
FromYolov8(predictions) == predictions

ConfidenceFilterGE(dets) == SelectSeq(dets, LAMBDA d : d.confidence >= CONF_THRESHOLD)

\* line 207: detections[(detections.confidence > 0.3)] - boolean-mask indexing
ConfidenceFilter(dets) == SelectSeq(dets, LAMBDA d : d.confidence > CONF_THRESHOLD)

\* ":0.2f" - thousandths rounded to hundredths
Format2f(c) == (c + 5) \div 10

\* line 210: classes[class_id] - Python indexes from 0; indexing a str yields
\* the str of one character
ClassLookup(class_id) == << classes[class_id + 1] >>

\* lines 209-213: one label per kept detection, in order
Labels(dets) ==
    [k \in 1..Len(dets) |->
        [name |-> ClassLookup(dets[k].class_id),
         conf |-> Format2f(dets[k].confidence)]]

process_frame_stale(frame, i) ==
    LET detections == ConfidenceFilter(FromYolov8(Predict(frame)))
    IN  [scene |-> 1, boxes |-> detections, labels |-> Labels(detections)]

\* lines 203-217: the annotated frame process_frame returns - the scene it
\* was given, with the kept detections and their labels drawn on it
process_frame(frame, i) ==
    LET detections == ConfidenceFilter(FromYolov8(Predict(frame)))
    IN  [scene |-> frame.scene, boxes |-> detections, labels |-> Labels(detections)]

\* lines 204, 215: what one call of process_frame shows - the progress line
\* it prints
Printed(i) == [kind |-> "progress", value |-> i]

\* ------------------------------------------------------- the notebook steps
\* the code cells of the notebook, top to bottom, one entry per statement
NotebookOrderSwapped ==
    << "pip", "wget", "unzip", "imports", "ontology", "label", "load",
       "predict", "train", "export", "val", "video_defs", "generator",
       "process_video", "print" >>

NotebookOrder ==
    << "pip", "wget", "unzip", "imports", "ontology", "label", "load",
       "train", "export", "val", "predict", "video_defs", "generator",
       "process_video", "print" >>

Index(step) == CHOOSE k \in 1..Len(NotebookOrder) : NotebookOrder[k] = step

\* the statement after step; "done" after the last one
Succ(step) ==
    IF Index(step) = Len(NotebookOrder) THEN "done"
    ELSE NotebookOrder[Index(step) + 1]

\* lines 42-44: a "!" line whose command fails raises nothing; the next line
\* runs
AfterShell(step, ok) == Succ(step)

AfterPythonContinue(step, ok) == Succ(step)

AfterPythonDone(step, ok) == IF ok THEN Succ(step) ELSE "done"

\* a Python statement that raises ends its cell and the run
AfterPython(step, ok) == IF ok THEN Succ(step) ELSE "aborted"

\* lines 166, 205: inference runs on the handle target_model
InferenceModelArtifact == "artifact"

InferenceModel == "handle"

\* ------------------------------------------------------------------- state
VARIABLES
    pc,            \* the statement to run next, "frames", "done" or "aborted"
    disk,          \* the entries on disk
    failed,        \* the steps that failed
    log,           \* the steps started, in order
    reads,         \* the paths read, with the reading step
    produced,      \* the paths written, with the writing step
    base_model,    \* the ontology of the labelling model; <<>> before line 93
    labelled,      \* the labelled dataset label() wrote
    target_model,  \* "unset", "base" (line 127) or "trained" (line 129)
    saved_weights, \* the set holding the artifact export returned
    inferences,    \* the inference calls made, in order
    videoLen,      \* the number of frames of the source video
    video,         \* the source frames decoded so far, in order
    generator,     \* the frame generator of line 227: "unset" or "fresh"
    framePos,      \* the number of source frames process_video has consumed
    calls,         \* the frame indices process_frame was called with
    output,        \* the frames written to the output video
    stdout         \* the lines printed

vars == << pc, disk, failed, log, reads, produced, base_model, labelled,
           target_model, saved_weights, inferences, videoLen, video, generator,
           framePos, calls, output, stdout >>

\* --------------------------------------------------------- initial states
Detection == [confidence : Scores, class_id : {0}]

RECURSIVE SeqsUpTo(_, _)
SeqsUpTo(S, n) ==
    IF n = 0 THEN {<<>>}
    ELSE LET shorter == SeqsUpTo(S, n - 1)
         IN  shorter \cup {Append(s, x) : s \in {t \in shorter : Len(t) = n - 1}, x \in S}

RECURSIVE TotalDets(_)
TotalDets(frames) ==
    IF frames = <<>> THEN 0
    ELSE Len(frames[1].dets) + TotalDets(Tail(frames))

\* the detection lists the next frame may yield, given the frames so far
DetLists(frames) == SeqsUpTo(Detection, MaxDets - TotalDets(frames))

CtxDir == Norm(LABEL_INPUT)
CtxJpeg == File(<<"context_images", "a">>, ".jpeg")
CtxJpg == File(<<"context_images", "0c59">>, ".jpg")
OldExample == Norm(EXAMPLE_IMAGE)

\* what may be on disk before the notebook runs: nothing, a context_images
\* directory, and the labelled images of an earlier run
InitialDisks ==
    { {},
      {CtxDir, CtxJpeg},
      {CtxDir, CtxJpeg, CtxJpg},
      {CtxDir, CtxJpeg, CtxJpg, OldExample} }

Init ==
    /\ pc = "pip"
    /\ disk \in InitialDisks
    /\ failed = {}
    /\ log = <<>>
    /\ reads = {}
    /\ produced = {}
    /\ base_model = <<>>
    /\ labelled = [written |-> FALSE, images |-> {}, names |-> <<>>]
    /\ target_model = "unset"
    /\ saved_weights = {}
    /\ inferences = <<>>
    /\ videoLen \in 0..MaxFrames
    /\ video = <<>>
    /\ generator = "unset"
    /\ framePos = 0
    /\ calls = <<>>
    /\ output = <<>>
    /\ stdout = <<>>

\* ------------------------------------------------------------------ actions
\* what every statement does: it is logged as started, a failure is
\* recorded, and control moves on
Run(step, ok, next) ==
    /\ pc = step
    /\ log' = Append(log, step)
    /\ failed' = IF ok THEN failed ELSE failed \cup {step}
    /\ pc' = next

\* line 42: !pip install ...
Pip ==
    \E ok \in BOOLEAN :
        /\ Run("pip", ok, AfterShell("pip", ok))
        /\ UNCHANGED << disk, reads, produced, base_model, labelled, target_model,
                        saved_weights, inferences, videoLen, video, generator, framePos,
                        calls, output, stdout >>

\* line 43: !wget https://autodistill.s3.amazonaws.com/containers.zip
Wget ==
    \E ok \in BOOLEAN :
        /\ Run("wget", ok, AfterShell("wget", ok))
        /\ disk' = IF ok THEN disk \cup {ZIP_FILE} ELSE disk
        /\ produced' = IF ok THEN produced \cup {[step |-> "wget", path |-> ZIP_FILE]}
                       ELSE produced
        /\ UNCHANGED << reads, base_model, labelled, target_model, saved_weights,
                        inferences, videoLen, video, generator, framePos, calls, output,
                        stdout >>

\* line 44: !unzip -q containers.zip -d containers
Unzip ==
    \E ok \in BOOLEAN :
        /\ ok => ZIP_FILE \in disk
        /\ Run("unzip", ok, AfterShell("unzip", ok))
        /\ reads' = reads \cup {[step |-> "unzip", path |-> ZIP_FILE]}
        /\ disk' = IF ok THEN disk \cup {UNZIP_DIR} \cup ZipImages ELSE disk
        /\ produced' = IF ok
                       THEN produced \cup {[step |-> "unzip", path |-> e] :
                                             e \in {UNZIP_DIR} \cup ZipImages}
                       ELSE produced
        /\ UNCHANGED << base_model, labelled, target_model, saved_weights,
                        inferences, videoLen, video, generator, framePos, calls, output,
                        stdout >>

\* lines 54-62: the imports, HOME and DATA
Imports ==
    \E ok \in BOOLEAN :
        /\ Run("imports", ok, AfterPython("imports", ok))
        /\ UNCHANGED << disk, reads, produced, base_model, labelled, target_model,
                        saved_weights, inferences, videoLen, video, generator, framePos,
                        calls, output, stdout >>

\* line 93: base_model = GroundedSAM(ontology=CaptionOntology({...}))
MakeBaseModel ==
    \E ok \in BOOLEAN :
        /\ Run("ontology", ok, AfterPython("ontology", ok))
        /\ base_model' = IF ok THEN Ontology ELSE base_model
        /\ UNCHANGED << disk, reads, produced, labelled, target_model,
                        saved_weights, inferences, videoLen, video, generator, framePos,
                        calls, output, stdout >>

\* line 104: the files of the input folder that label() is asked to label,
\* those with the extension given
SelectedForLabel(dk) ==
    {e \in FilesIn(dk, Norm(LABEL_INPUT)) : e.ext = LABEL_EXTENSION}

\* where the labelled copy of an input image is written
LabelledCopy(e) ==
    File(LabelOutputDir.path \o <<"train", "images", e.path[Len(e.path)]>>, e.ext)

\* line 104: base_model.label("./context_images", extension=".jpeg")
Label ==
    \E ok \in BOOLEAN :
        LET written == {LabelOutputDir, LabelManifest}
                       \cup {LabelledCopy(e) : e \in SelectedForLabel(disk)}
        IN
        /\ ok => Norm(LABEL_INPUT) \in disk
        /\ Run("label", ok, AfterPython("label", ok))
        /\ reads' = reads \cup {[step |-> "label", path |-> Norm(LABEL_INPUT)]}
        /\ labelled' = IF ok
                       THEN [written |-> TRUE,
                             images  |-> SelectedForLabel(disk),
                             names   |-> OntologyClasses(base_model)]
                       ELSE labelled
        /\ disk' = IF ok THEN disk \cup written ELSE disk
        /\ produced' = IF ok
                       THEN produced \cup {[step |-> "label", path |-> e] : e \in written}
                       ELSE produced
        /\ UNCHANGED << base_model, target_model, saved_weights, inferences,
                        videoLen, video, generator, framePos, calls, output, stdout >>

\* line 127: target_model = YOLOv8("yolov8n.pt")
Load ==
    \E ok \in BOOLEAN :
        /\ Run("load", ok, AfterPython("load", ok))
        /\ target_model' = IF ok THEN "base" ELSE target_model
        /\ UNCHANGED << disk, reads, produced, base_model, labelled,
                        saved_weights, inferences, videoLen, video, generator, framePos,
                        calls, output, stdout >>

\* line 129: target_model.train("./containers_labeled/data.yaml", epochs=200)
Train ==
    \E ok \in BOOLEAN :
        /\ ok => Norm(TRAIN_MANIFEST) \in disk
        /\ Run("train", ok, AfterPython("train", ok))
        /\ reads' = reads \cup {[step |-> "train", path |-> Norm(TRAIN_MANIFEST)]}
        /\ target_model' = IF ok THEN "trained" ELSE target_model
        /\ UNCHANGED << disk, produced, base_model, labelled, saved_weights,
                        inferences, videoLen, video, generator, framePos, calls, output,
                        stdout >>

\* line 132: saved_weights = target_model.export(format="onnx")
Export ==
    \E ok \in BOOLEAN :
        /\ Run("export", ok, AfterPython("export", ok))
        /\ saved_weights' = IF ok THEN {EXPORTED} ELSE saved_weights
        /\ disk' = IF ok THEN disk \cup {EXPORTED} ELSE disk
        /\ produced' = IF ok THEN produced \cup {[step |-> "export", path |-> EXPORTED]}
                       ELSE produced
        /\ UNCHANGED << reads, base_model, labelled, target_model, inferences,
                        videoLen, video, generator, framePos, calls, output, stdout >>

\* line 143: metrics = target_model.val()
Val ==
    \E ok \in BOOLEAN :
        /\ Run("val", ok, AfterPython("val", ok))
        /\ UNCHANGED << disk, reads, produced, base_model, labelled, target_model,
                        saved_weights, inferences, videoLen, video, generator, framePos,
                        calls, output, stdout >>

\* one inference call on the model the code names
Inference(kind) ==
    [kind |-> kind, model |-> InferenceModel, trained |-> target_model = "trained"]

\* lines 164-171: pred = target_model.predict(example_image, conf=0.01), plotted
PredictImage ==
    \E ok \in BOOLEAN :
        /\ ok => Norm(EXAMPLE_IMAGE) \in disk
        /\ Run("predict", ok, AfterPython("predict", ok))
        /\ reads' = reads \cup {[step |-> "predict", path |-> Norm(EXAMPLE_IMAGE)]}
        /\ inferences' = Append(inferences, Inference("image"))
        /\ UNCHANGED << disk, produced, base_model, labelled, target_model,
                        saved_weights, videoLen, video, generator, framePos, calls, output,
                        stdout >>

\* lines 192-217: the annotator, classes, VIDEO, OUTPUT and process_frame are
\* defined
VideoDefs ==
    \E ok \in BOOLEAN :
        /\ Run("video_defs", ok, AfterPython("video_defs", ok))
        /\ UNCHANGED << disk, reads, produced, base_model, labelled, target_model,
                        saved_weights, inferences, videoLen, video, generator, framePos,
                        calls, output, stdout >>

\* line 227: generator = sv.get_video_frames_generator(VIDEO); a generator
\* reads nothing until it is iterated, and nothing iterates this one
MakeGenerator ==
    /\ Run("generator", TRUE, AfterPython("generator", TRUE))
    /\ generator' = "fresh"
    /\ UNCHANGED << disk, reads, produced, base_model, labelled, target_model,
                    saved_weights, inferences, videoLen, video, framePos, calls, output,
                    stdout >>

\* lines 229-233: sv.process_video opens the source video
ProcessVideoStart ==
    \E ok \in BOOLEAN :
        LET next == AfterPython("process_video", ok)
        IN
        /\ Run("process_video", ok,
               IF next = Succ("process_video") THEN "frames" ELSE next)
        /\ reads' = reads \cup {[step |-> "process_video", path |-> Norm(VIDEO)]}
        /\ UNCHANGED << disk, produced, base_model, labelled, target_model,
                        saved_weights, inferences, videoLen, video, generator, framePos,
                        calls, output, stdout >>

\* lines 229-233: sv.process_video takes the next source frame, calls the
\* callback on it with its index and writes the frame returned
ProcessVideoFrame ==
    \E ok \in BOOLEAN, dets \in DetLists(video) :
        LET frame == [scene |-> framePos + 1, dets |-> dets]
        IN
        /\ pc = "frames"
        /\ framePos < videoLen
        /\ video' = Append(video, frame)
        /\ calls' = Append(calls, framePos)
        /\ stdout' = Append(stdout, Printed(framePos))
        /\ inferences' = Append(inferences, Inference("frame"))
        /\ IF ok
           THEN /\ output' = Append(output, process_frame(frame, framePos))
                /\ framePos' = framePos + 1
                /\ pc' = "frames"
                /\ failed' = failed
           ELSE /\ pc' = AfterPython("process_video", FALSE)
                /\ failed' = failed \cup {"process_video"}
                /\ UNCHANGED << output, framePos >>
        /\ UNCHANGED << disk, log, reads, produced, base_model, labelled,
                        target_model, saved_weights, videoLen, generator >>

\* lines 229-233: the source is exhausted; the output video is closed
ProcessVideoEnd ==
    /\ pc = "frames"
    /\ framePos = videoLen
    /\ pc' = Succ("process_video")
    /\ disk' = disk \cup {OUTPUT}
    /\ produced' = produced \cup {[step |-> "process_video", path |-> OUTPUT]}
    /\ UNCHANGED << failed, log, reads, base_model, labelled, target_model,
                    saved_weights, inferences, videoLen, video, generator, framePos, calls,
                    output, stdout >>

\* line 235: print(f"Output saved to {OUTPUT}.")
SavedLine == [kind |-> "saved", value |-> 0]

PrintSaved ==
    /\ Run("print", TRUE, AfterPython("print", TRUE))
    /\ stdout' = Append(stdout, SavedLine)
    /\ UNCHANGED << disk, reads, produced, base_model, labelled, target_model,
                    saved_weights, inferences, videoLen, video, generator, framePos, calls,
                    output >>

Next ==
    \/ Pip
    \/ Wget
    \/ Unzip
    \/ Imports
    \/ MakeBaseModel
    \/ Label
    \/ Load
    \/ Train
    \/ Export
    \/ Val
    \/ PredictImage
    \/ VideoDefs
    \/ MakeGenerator
    \/ ProcessVideoStart
    \/ ProcessVideoFrame
    \/ ProcessVideoEnd
    \/ PrintSaved

Spec == Init /\ [][Next]_vars

\* the kernel runs a statement whenever one is left to run
FairSpec == Spec /\ WF_vars(Next)

TypeOK ==
    /\ pc \in {"frames", "done", "aborted"} \cup {NotebookOrder[k] : k \in 1..Len(NotebookOrder)}
    /\ framePos \in 0..videoLen
    /\ Len(video) \in {framePos, framePos + 1}
    /\ target_model \in {"unset", "base", "trained"}

\* ------------------------------------------------------------------ helpers
Range(q) == {q[k] : k \in 1..Len(q)}

\* lines 42-44: the statements run by the shell
ShellSteps == {"pip", "wget", "unzip"}

Terminated == pc \in {"done", "aborted"}

\* process_video has returned
VideoReturned == pc \in {"print", "done"}

\* ------------------------------------------------------------------- claims

\* C1: every stage reads what the preceding stage produced: the directory
\* given to label is the directory the archive was unpacked into, and the
\* manifest given to train was written by this run's label call.
C1_StagesReadWhatThePreviousProduced ==
    /\ \A r \in reads :
          (r.step = "label" /\ failed \cap {"unzip", "label"} = {})
              => r.path = Norm(UNZIP_DIR)
    /\ \A r \in reads :
          (r.step = "train" /\ "train" \notin failed)
              => [step |-> "label", path |-> r.path] \in produced

\* C2: a video of N frames gives an output of N frames; process_frame is
\* called once per source frame, with the indices 0, 1, ... in order; the
\* frame written at position k is the annotated source frame k; and what is
\* drawn on a frame depends on that frame only.
C2_VideoFramesPreserved ==
    /\ Len(output) = framePos
    /\ Len(output) <= videoLen
    /\ \A k \in 1..Len(calls) : calls[k] = k - 1
    /\ Len(calls) \in {Len(output), Len(output) + 1}
    /\ Len(calls) = Len(output) + 1 => (pc = "aborted" /\ "process_video" \in failed)
    /\ VideoReturned => (Len(output) = videoLen /\ Len(calls) = videoLen)
    /\ \A k \in 1..Len(output) : output[k].scene = video[k].scene
    /\ \A j, k \in 1..Len(output) :
          video[j].dets = video[k].dets
              => (output[j].boxes = output[k].boxes /\ output[j].labels = output[k].labels)
    /\ generator \in {"unset", "fresh"}

C2_Witness ==
    /\ pc = "done"
    /\ videoLen >= 2
    /\ Len(output) = videoLen
    /\ output[1].boxes # output[2].boxes

\* C3: the detections kept for a frame are exactly those with a score
\* strictly above 0.3, in their original relative order: none at or below
\* the threshold is kept, none above it is lost, none is added.
C3_FilterKeepsExactlyAboveThreshold ==
    \A k \in 1..Len(output) :
        LET d == video[k].dets
            b == output[k].boxes
        IN  /\ \A i \in 1..Len(b) : b[i].confidence > 300
            /\ Len(b) = Cardinality({i \in 1..Len(d) : d[i].confidence > 300})
            /\ \E f \in [1..Len(b) -> 1..Len(d)] :
                  /\ \A i \in 1..Len(b) : b[i] = d[f[i]]
                  /\ \A i, j \in 1..Len(b) : i < j => f[i] < f[j]

C3_Witness ==
    \E j, k \in 1..Len(output) :
        /\ \E i \in 1..Len(video[j].dets) : video[j].dets[i].confidence = 300
        /\ Len(output[j].boxes) < Len(video[j].dets)
        /\ Len(output[k].boxes) = 2
        /\ output[k].boxes[1].confidence # output[k].boxes[2].confidence

ImageExts == {".jpg", ".jpeg"}
InputImages == {e \in FilesIn(disk, Norm(LABEL_INPUT)) : e.ext \in ImageExts}

\* C5: the labelled dataset has as many images as the input directory (no
\* image is skipped by the extension given to label) and its manifest lists
\* exactly the class "container".
C5_LabelledCountEqualsInputCount ==
    labelled.written =>
        /\ Cardinality(labelled.images) = Cardinality(InputImages)
        /\ labelled.names = << <<"c","o","n","t","a","i","n","e","r">> >>

\* C6 as stated: every inference runs on a model loaded from the exported
\* artifact, and a finished run has read every artifact it exported.
C6_InferenceReadsPersistedArtifact ==
    /\ \A i \in 1..Len(inferences) : inferences[i].model = "artifact"
    /\ pc = "done" => saved_weights \subseteq {r.path : r \in reads}

\* C6 as amended: every inference, on the image and on each frame, runs on
\* the in-memory handle target_model after train has trained it; the
\* artifact export wrote is read by no step of the run.
C6_InferenceUsesTrainedHandle ==
    /\ \A i \in 1..Len(inferences) :
          inferences[i].model = "handle" /\ inferences[i].trained
    /\ \A r \in reads : r.path \notin saved_weights

C6_Witness ==
    /\ pc = "done"
    /\ saved_weights = {EXPORTED}
    /\ EXPORTED \in disk
    /\ \E i \in 1..Len(inferences) : inferences[i].kind = "image"
    /\ \E i \in 1..Len(inferences) : inferences[i].kind = "frame"

\* the stage of the pipeline a step belongs to: 1 dataset acquisition,
\* 2 labelling, 3 training, 4 export, 5 validation, 6 single-image
\* inference, 7 video processing
Rank(step) ==
    CASE step \in {"pip", "wget", "unzip", "imports"} -> 1
      [] step \in {"ontology", "label"} -> 2
      [] step \in {"load", "train"} -> 3
      [] step = "export" -> 4
      [] step = "val" -> 5
      [] step = "predict" -> 6
      [] OTHER -> 7

\* C7: the stages run one after another in the order acquisition, labelling,
\* training, export, validation, single-image inference, video processing;
\* export and validation run only on a trained model, and so does every
\* inference call.
C7_StagesInOrder ==
    /\ \A i, j \in 1..Len(log) : i < j => Rank(log[i]) <= Rank(log[j])
    /\ \A i, j \in 1..Len(log) : log[i] = log[j] => i = j
    /\ ({"export", "val"} \cap Range(log) # {}) => target_model = "trained"
    /\ \A i \in 1..Len(inferences) : inferences[i].trained
    /\ pc = "frames" => log[Len(log)] = "process_video"

C7_Witness ==
    /\ pc = "done"
    /\ Len(log) = Len(NotebookOrder)
    /\ Len(inferences) >= 2

\* the text a count of n containers would be drawn as
CountText(n) == [name |-> <<"c","o","u","n","t">>, conf |-> n]

\* C8: for every frame written, the output shows the number of containers
\* detected in it (the detections kept by the filter), printed or drawn.
C8_EveryFrameShowsItsCount ==
    \A k \in 1..Len(output) :
        \/ \E n \in 1..Len(stdout) :
              stdout[n].kind = "count" /\ stdout[n].value = Len(output[k].boxes)
        \/ CountText(Len(output[k].boxes)) \in Range(output[k].labels)

C10_LabelsNameTheOntologyClass ==
    \A k \in 1..Len(output) :
        LET b == output[k].boxes
            l == output[k].labels
        IN  /\ Len(l) = Len(b)
            /\ \A i \in 1..Len(b) :
                  /\ l[i].name = OntologyClasses(Ontology)[b[i].class_id + 1]
                  /\ l[i].conf = Format2f(b[i].confidence)

====
